---------------------------- MODULE Spec2Model ----------------------------
(***************************************************************************)
(* Model of src/util/log.c of tpm2-tss: the level resolver (getLogLevel,   *)
(* log_stringlevel, case_insensitive_strncmp), the destination resolver    *)
(* (getLogFile) and the two emitters (doLog, doLogBlob).                   *)
(*                                                                         *)
(* C strings are sequences of ASCII codes; the terminating NUL is implicit *)
(* at offset Len(s).  A pointer into a string is the pair (string, 0-based *)
(* offset).                                                                *)
(***************************************************************************)
EXTENDS Integers, Sequences, FiniteSets, TLC

-----------------------------------------------------------------------------
(* Characters and C-string primitives *)

NUL == 0

\* getenv() returning NULL: a value no C string equals.
NULLSTR == <<-1>>

\* *(s + k) for a NUL-terminated string s.
At(s, k) == IF k >= 0 /\ k < Len(s) THEN s[k + 1] ELSE NUL

tolower(c) == IF c >= 65 /\ c <= 90 THEN c + 32 ELSE c

isgraph(c) == c >= 33 /\ c <= 126

strlen(s) == Len(s)

\* strchr(s + from, c): offset of the first c at or after from, -1 for NULL.
RECURSIVE strchr(_, _, _)
strchr(s, from, c) ==
    IF from >= Len(s) THEN -1
    ELSE IF s[from + 1] = c THEN from
    ELSE strchr(s, from + 1, c)

\* strcmp(s1, s2) == 0
strcmpEq(s1, s2) == s1 = s2

\* The do/while loop of case_insensitive_strncmp on (s1 + o1, s2 + o2, n), n >= 1.
RECURSIVE cmpLoop(_, _, _, _, _)
cmpLoop(s1, o1, s2, o2, n) ==
    LET result == tolower(At(s1, o1)) - tolower(At(s2, o2))
    IN  IF result # 0 THEN result
        ELSE IF At(s1, o1) = NUL THEN result
        ELSE IF At(s2, o2) = NUL THEN result
        ELSE IF n - 1 = 0 THEN result
        ELSE cmpLoop(s1, o1 + 1, s2, o2 + 1, n - 1)

case_insensitive_strncmp(s1, o1, s2, o2, n) ==
    IF s1 = NULLSTR /\ s2 = NULLSTR THEN 0
    ELSE IF s1 = NULLSTR THEN -1
    ELSE IF s2 = NULLSTR THEN 1
    ELSE IF n = 0 THEN 0
    ELSE cmpLoop(s1, o1, s2, o2, n)

-----------------------------------------------------------------------------
(* Log levels *)

LOGLEVEL_NONE == 0
LOGLEVEL_UNUSED == 1
LOGLEVEL_ERROR == 2
LOGLEVEL_WARNING == 3
LOGLEVEL_INFO == 4
LOGLEVEL_DEBUG == 5
LOGLEVEL_TRACE == 6
\* The sentinel of an unresolved slot: any value outside 0 .. 6.
LOGLEVEL_UNDEFINED == 255

Levels == LOGLEVEL_NONE .. LOGLEVEL_TRACE

\* "none", "(unused)", "ERROR", "WARNING", "info", "debug", "trace"
log_strings ==
    << <<110, 111, 110, 101>>,
       <<40, 117, 110, 117, 115, 101, 100, 41>>,
       <<69, 82, 82, 79, 82>>,
       <<87, 65, 82, 78, 73, 78, 71>>,
       <<105, 110, 102, 111>>,
       <<100, 101, 98, 117, 103>>,
       <<116, 114, 97, 99, 101>> >>

\* log_stringlevel(n) with n = env + off: the first table entry that is a
\* case-insensitive prefix of n, as its index.
RECURSIVE stringlevelFrom(_, _, _)
stringlevelFrom(i, env, off) ==
    IF i >= Len(log_strings) THEN LOGLEVEL_UNDEFINED
    ELSE IF case_insensitive_strncmp(log_strings[i + 1], 0, env, off,
                                     strlen(log_strings[i + 1])) = 0
         THEN i
         ELSE stringlevelFrom(i + 1, env, off)

log_stringlevel(env, off) == stringlevelFrom(0, env, off)

\* "all"
StrAll == <<97, 108, 108>>

PLUS == 43

\* The condition of getLogLevel's if, for the '+' at offset i of envlevel.
\* "envlevel <= i - strlen(x)" is the offset test i - strlen(x) >= 0: when x
\* is longer than the text before the '+', i - strlen(x) is an address below
\* the string and the comparison of addresses fails.
entryMatches(envlevel, i, module) ==
    \/ /\ 0 <= i - strlen(StrAll)
       /\ case_insensitive_strncmp(envlevel, i - 3, StrAll, 0, 3) = 0
    \/ /\ 0 <= i - strlen(module)
       /\ case_insensitive_strncmp(envlevel, i - strlen(module), module, 0,
                                   strlen(module)) = 0

\* The body of the while loop for the '+' at offset i: the new running level.
levelAfter(envlevel, i, module, loglevel) ==
    IF entryMatches(envlevel, i, module)
    THEN LET tmp == log_stringlevel(envlevel, i + 1)
         IN  IF tmp # LOGLEVEL_UNDEFINED THEN tmp ELSE loglevel
    ELSE loglevel

\* A scan that leaves the loop at the first entry that sets the level.
RECURSIVE scanLevel_FirstWins(_, _, _, _)
scanLevel_FirstWins(envlevel, from, module, loglevel) ==
    LET i == strchr(envlevel, from, PLUS)
    IN  IF i = -1 THEN loglevel
        ELSE IF /\ entryMatches(envlevel, i, module)
                /\ log_stringlevel(envlevel, i + 1) # LOGLEVEL_UNDEFINED
             THEN log_stringlevel(envlevel, i + 1)
             ELSE scanLevel_FirstWins(envlevel, i + 1, module, loglevel)

\* while ((i = strchr(i, '+')) != NULL) { ...; i = i + 1; }
RECURSIVE scanLevel(_, _, _, _)
scanLevel(envlevel, from, module, loglevel) ==
    LET i == strchr(envlevel, from, PLUS)
    IN  IF i = -1 THEN loglevel
        ELSE scanLevel(envlevel, i + 1, module,
                       levelAfter(envlevel, i, module, loglevel))

getLogLevel(envlevel, module, logdefault) ==
    IF envlevel = NULLSTR THEN logdefault
    ELSE scanLevel(envlevel, 0, module, logdefault)

-----------------------------------------------------------------------------
(* Inputs of the level resolver: TSS2_LOG strings built from entries        *)

MaxEntries == 2

\* Module names: "m", "xm", "b", "moduleX", "X", "eX", "l", "ll"
NameM == <<109>>
NameXM == <<120, 109>>
NameB == <<98>>
NameModuleX == <<109, 111, 100, 117, 108, 101, 88>>
NameX == <<88>>
NameEX == <<101, 88>>
NameL == <<108>>
NameLL == <<108, 108>>

\* Level tokens: "DEBUG", "TRACE", "ERROR", "WARNING", and "foo" (no level)
TokDEBUG == <<68, 69, 66, 85, 71>>
TokTRACE == <<84, 82, 65, 67, 69>>
TokERROR == <<69, 82, 82, 79, 82>>
TokWARNING == <<87, 65, 82, 78, 73, 78, 71>>
TokFoo == <<102, 111, 111>>

Entry(name, tok) == [name |-> name, tok |-> tok]

\* entry(,entry)* as the text of the environment variable
RECURSIVE Join(_)
Join(es) ==
    IF Len(es) = 0 THEN << >>
    ELSE IF Len(es) = 1 THEN es[1].name \o <<PLUS>> \o es[1].tok
    ELSE es[1].name \o <<PLUS>> \o es[1].tok \o <<44>> \o Join(Tail(es))

EntryNames == {NameM, NameXM, NameB, StrAll}
EntryToks == {TokDEBUG, TokTRACE, TokERROR, TokFoo}
Entries == {Entry(n, t) : n \in EntryNames, t \in EntryToks}

RECURSIVE SeqsUpTo(_, _)
SeqsUpTo(S, n) ==
    IF n = 0 THEN {<< >>}
    ELSE LET shorter == SeqsUpTo(S, n - 1)
         IN  shorter \cup {Append(q, e) : q \in shorter, e \in S}

\* all+WARNING,moduleX+TRACE
CfgAllWarnModXTrace == <<Entry(StrAll, TokWARNING), Entry(NameModuleX, TokTRACE)>>

ConfigLists == SeqsUpTo(Entries, MaxEntries) \cup {CfgAllWarnModXTrace}

QueryModules == {NameM, NameB, NameXM, NameModuleX, NameX, NameEX, NameL, NameLL}

QueryDefaults == {LOGLEVEL_NONE, LOGLEVEL_WARNING}

-----------------------------------------------------------------------------
(* Destination handles and TSS2_LOGFILE values *)

NULLF == <<"NULL">>
STDERR == <<"stderr">>
STDOUT == <<"stdout">>
\* The FILE* returned by the n-th fopen call: every call returns a new one.
FileHandle(n) == <<"file", n>>

\* "stderr", "stdout", "-"
StrStderr == <<115, 116, 100, 101, 114, 114>>
StrStdout == <<115, 116, 100, 111, 117, 116>>
StrDash == <<45>>
\* Values of TSS2_LOGFILE: "StdErr", "STDOUT", "/t", "stderrx"
ValStdErr == <<83, 116, 100, 69, 114, 114>>
ValSTDOUT == <<83, 84, 68, 79, 85, 84>>
ValPath == <<47, 116>>
ValStderrX == <<115, 116, 100, 101, 114, 114, 120>>

CountCap == 2

\* History counters saturate at CountCap.
Inc(x) == IF x < CountCap THEN x + 1 ELSE x

\* The standard stream envpath names, or NULLF when it names a file path.
namedStream(envpath) ==
    IF envpath = NULLSTR
       \/ case_insensitive_strncmp(envpath, 0, StrStderr, 0, 7) = 0
    THEN STDERR
    ELSE IF strcmpEq(envpath, StrDash)
            \/ case_insensitive_strncmp(envpath, 0, StrStdout, 0, 7) = 0
         THEN STDOUT
         ELSE NULLF

\* A test of the static file that never finds it set.
isCached_Never(f) == FALSE

\* if (file) return file;
isCached(f) == f # NULLF

\* getLogFile past its early return: getenv, the comparisons, fopen and the
\* fallback to stderr.  d is the destination state: the static file and the
\* history of what the calls did; ok is whether fopen succeeds.
resolveFile(d, envpath, ok) ==
    LET stream == namedStream(envpath)
        opened == IF ok THEN FileHandle(d.fopens + 1) ELSE STDERR
        f == IF stream # NULLF THEN stream ELSE opened
    IN  [file |-> f,
         reads |-> Inc(d.reads),
         fopens |-> IF stream = NULLF THEN Inc(d.fopens) ELSE d.fopens,
         failed |-> d.failed \/ (stream = NULLF /\ ~ok),
         diag |-> IF stream = NULLF /\ ~ok THEN Inc(d.diag) ELSE d.diag,
         calls |-> Inc(d.calls),
         first |-> IF d.calls = 0 THEN f ELSE d.first,
         last |-> f]

\* A getLogFile without its early return: every call resolves again.
getLogFile_NoCache(d, envpath, ok) == resolveFile(d, envpath, ok)

\* getLogFile() run to completion by one thread (LOG_FILE_ENABLED build);
\* envpath is getenv("TSS2_LOGFILE").
getLogFile(d, envpath, ok) ==
    IF isCached(d.file)
    THEN [d EXCEPT !.calls = Inc(d.calls), !.last = d.file]
    ELSE resolveFile(d, envpath, ok)

DestInit ==
    [file |-> NULLF, reads |-> 0, fopens |-> 0, failed |-> FALSE, diag |-> 0,
     calls |-> 0, first |-> NULLF, last |-> NULLF]

-----------------------------------------------------------------------------
(* The hex dump of doLogBlob *)

\* Width in bits of the unsigned int loop counter i (32 in the build, scaled
\* to keep its wrap within reach); 16 divides 2^UINT_BITS as it divides 2^32.
\* off, x and y are unsigned int too, but stay below 128 and never wrap.
UINT_BITS == 5
UINT_MOD == 2 ^ UINT_BITS
U(x) == x % UINT_MOD

\* Blob lengths explored: 0 .. MaxBlobSize (size_t is wider than unsigned int).
MaxBlobSize == 34

width == 16
LINE_LEN == 64
AsciiCol == width * 2 + 8

HexDigit(d) == IF d < 10 THEN 48 + d ELSE 87 + d

\* printf("%0<w>x", n)
RECURSIVE Hex(_, _)
Hex(n, w) ==
    IF n < 16 /\ w <= 1 THEN <<HexDigit(n)>>
    ELSE Append(Hex(n \div 16, w - 1), HexDigit(n % 16))

\* sprintf(.., "%04x: ", n)
Prefix(n) == Hex(n, 4) \o <<58, 32>>

Spaces(n) == [k \in 1 .. n |-> 32]

\* The blob's byte at index k: pattern "text" is letters, "bin" mixes
\* printable and non-printable bytes.
Blob(pat, k) == IF pat = "text" THEN 65 + (k % 26) ELSE (k * 67 + 1) % 256

\* sprintf(&buffer[off], s): the C string held by buffer afterwards.
Write(buf, off, s) == IF off <= Len(buf) THEN SubSeq(buf, 1, off) \o s ELSE buf

\* One past the last byte sprintf(&buffer[off], s) writes (the NUL included).
Extent(off, s) == off + Len(s) + 1

MaxOf(S) == CHOOSE x \in S : \A y \in S : y <= x

LoopIdle == [i |-> 0, off |-> 0, off2 |-> 0, buffer |-> << >>, nb |-> 0]
LoopStart == [i |-> 1, off |-> 0, off2 |-> 0, buffer |-> << >>, nb |-> 0]

NoLine == [text |-> << >>, col |-> -1, nbytes |-> 0]

\* (i % width == 0 && i > 1) || i == size
lineEnds(i, size) == (i % width = 0 /\ i > 1) \/ i = size

\* for (x = off; x < width * 2 + 8; x++): the number of spaces written.
padTo(off) == IF off < AsciiCol THEN AsciiCol - off ELSE 0

\* One iteration of the for loop of doLogBlob, for loop state l:
\* the next loop state, the line it printed (NoLine when none) and the
\* furthest byte of buffer it wrote.
dumpIter(l, size, pat) ==
    LET i == l.i
        \* if (i == 1) { sprintf "%04x: "; off += 6 }
        b1 == IF i = 1 THEN Write(l.buffer, l.off, Prefix(U(i - 1))) ELSE l.buffer
        o1 == IF i = 1 THEN l.off + 6 ELSE l.off
        e1 == IF i = 1 THEN Extent(l.off, Prefix(U(i - 1))) ELSE 0
        \* data output
        hx == Hex(Blob(pat, U(i - 1)), 2)
        b2 == Write(b1, o1, hx)
        o2 == o1 + 2
        e2 == Extent(o1, hx)
        \* ASCII output
        b3 == Write(b2, o2, Spaces(2))
        o3 == o2 + 2
        e3 == Extent(o2, Spaces(2))
        pad == padTo(o3)
        b4 == IF pad > 0 THEN Write(b3, o3, Spaces(pad)) ELSE b3
        o4 == o3 + pad
        e4 == IF pad > 0 THEN o4 + 1 ELSE 0
        less0 == width - (i % width)
        less == IF less0 = width THEN 0 ELSE less0
        n == width - less
        ascii == [y \in 1 .. n |->
                    LET c == Blob(pat, U(l.off2 + y - 1))
                    IN  IF isgraph(c) THEN c ELSE 46]
        b5 == Write(b4, o4, ascii)
        e5 == o4 + n + 1
    IN  IF lineEnds(i, size)
        THEN [loop |-> [i |-> U(i + 1), off |-> 6, off2 |-> i,
                        buffer |-> Prefix(i), nb |-> 0],
              line |-> [text |-> b5, col |-> o4, nbytes |-> l.nb + 1],
              extent |-> MaxOf({e1, e2, e3, e4, e5})]
        ELSE [loop |-> [i |-> U(i + 1), off |-> o2, off2 |-> l.off2,
                        buffer |-> b2, nb |-> l.nb + 1],
              line |-> NoLine,
              extent |-> MaxOf({e1, e2})]

-----------------------------------------------------------------------------
(* Call sites *)

Sites == {"siteA", "siteB"}

\* The module name each call site passes.
ModuleOf(site) == IF site = "siteA" THEN NameM ELSE NameB

-----------------------------------------------------------------------------
VARIABLES
    envLog,      \* getenv("TSS2_LOG"): a string, or NULLSTR when unset
    cfg,         \* the entries envLog was written from (<< >> when unset)
    query,       \* one getLogLevel call: module, logdefault, result, pc
    envLogFile,  \* getenv("TSS2_LOGFILE"): a string, or NULLSTR when unset
    logdefault,  \* the default level each call site passes
    status,      \* the status slot of each call site
    slotHist,    \* per call site: calls made through it, getLogLevel calls,
                 \* and the slot's value when its first call returned
    dest,        \* getLogFile's static file and the history of its calls
    pc,          \* "idle", "dump" (inside doLogBlob's loop), "returned" (the
                 \* call is back in its caller) or "crashed"
    call,        \* the doLog or doLogBlob call in progress or just returned
    loop,        \* doLogBlob's locals i, off, off2, buffer
    out,         \* what the call has written: message lines, dump lines,
                 \* and the last dump line
    shared,      \* threads: getLogFile's static file, the fopen calls made,
                 \* and whether two getLogFile calls ever overlapped
    th           \* threads: each thread's place in getLogFile, the handle it
                 \* holds in a register, the handle its last call returned,
                 \* and the calls it has made

lvars == <<envLog, cfg, query>>
evars == <<envLogFile, logdefault, status, slotHist, dest, pc, call, loop, out>>
evarsRest == <<logdefault, status, slotHist, dest, pc, call, loop, out>>
cvars == <<shared, th>>
vars == <<envLog, cfg, query, envLogFile, logdefault, status, slotHist, dest,
          pc, call, loop, out, shared, th>>

Threads == {"t1", "t2"}

\* What a thread's ret holds before its first getLogFile call returns.
NotReturned == <<"none">>

ThreadsFresh ==
    /\ shared = [file |-> NULLF, fopens |-> 0, raced |-> FALSE]
    /\ th = [t \in Threads |->
               [pc |-> "idle", reg |-> NULLF, ret |-> NotReturned, calls |-> 0]]

NoCall == [kind |-> "none", site |-> "siteA", loglevel |-> LOGLEVEL_NONE,
           blob |-> FALSE, size |-> 0, pat |-> "text"]
NoOut == [msg |-> 0, dump |-> 0, last |-> NoLine]
NoQuery == [module |-> << >>, logdefault |-> LOGLEVEL_NONE,
            result |-> LOGLEVEL_UNDEFINED, pc |-> "none"]

\* The emitter before its first call.
EmitterFresh ==
    /\ status = [s \in Sites |-> LOGLEVEL_UNDEFINED]
    /\ slotHist = [s \in Sites |-> [calls |-> 0, resolves |-> 0,
                                   first |-> LOGLEVEL_UNDEFINED]]
    /\ dest = DestInit
    /\ pc = "idle"
    /\ call = NoCall
    /\ loop = LoopIdle
    /\ out = NoOut

LevelInit ==
    /\ \E es \in ConfigLists, set \in BOOLEAN :
          /\ cfg = (IF set THEN es ELSE << >>)
          /\ envLog = (IF set THEN Join(es) ELSE NULLSTR)
    /\ \E mod \in QueryModules, d \in QueryDefaults :
          query = [module |-> mod, logdefault |-> d,
                   result |-> LOGLEVEL_UNDEFINED, pc |-> "call"]
    /\ envLogFile = NULLSTR
    /\ logdefault = [s \in Sites |-> LOGLEVEL_WARNING]
    /\ EmitterFresh
    /\ ThreadsFresh

\* The call returns.
Resolve ==
    /\ query.pc = "call"
    /\ query' = [query EXCEPT
                   !.result = getLogLevel(envLog, query.module, query.logdefault),
                   !.pc = "done"]
    /\ UNCHANGED <<envLog, cfg>>
    /\ UNCHANGED evars
    /\ UNCHANGED cvars

LevelNext == Resolve

SpecLevel == LevelInit /\ [][LevelNext]_vars

-----------------------------------------------------------------------------
(* The emitters, called by one thread *)

\* A slot that is resolved again on every call.
ensureLevel_Always(s, module, d) ==
    [level |-> getLogLevel(envLog, module, d), resolves |-> 1]

\* if (unlikely(*status == LOGLEVEL_UNDEFINED)) *status = getLogLevel(..);
\* the slot afterwards, and the number of getLogLevel calls made.
ensureLevel(s, module, d) ==
    IF s = LOGLEVEL_UNDEFINED
    THEN [level |-> getLogLevel(envLog, module, d), resolves |-> 1]
    ELSE [level |-> s, resolves |-> 0]

\* if (loglevel > *status) return;
filteredOut(loglevel, threshold) == loglevel > threshold

\* doLog through the slot holding s: the slot afterwards, the getLogLevel
\* calls made, the destination state and the lines written.
doLog(s, site, loglevel, d, ok) ==
    LET r == ensureLevel(s, ModuleOf(site), logdefault[site])
    IN  IF filteredOut(loglevel, r.level)
        THEN [status |-> r.level, resolves |-> r.resolves, dest |-> d,
              lines |-> 0]
        ELSE [status |-> r.level, resolves |-> r.resolves,
              dest |-> getLogFile(d, envLogFile, ok), lines |-> 1]

\* doLogBlob up to its for loop: as doLog, and whether the loop is entered.
doLogBlobHead(s, site, loglevel, blob, d, ok) ==
    LET r == ensureLevel(s, ModuleOf(site), logdefault[site])
        m == doLog(r.level, site, loglevel, d, ok)
    IN  IF filteredOut(loglevel, r.level)
        THEN [status |-> r.level, resolves |-> r.resolves, dest |-> d,
              lines |-> 0, dump |-> FALSE]
        ELSE [status |-> m.status, resolves |-> r.resolves + m.resolves,
              dest |-> m.dest, lines |-> m.lines, dump |-> blob]

Ceil16(n) == (n + width - 1) \div width

\* The count of dump lines saturates one past the most any blob should give.
DumpCap == Ceil16(MaxBlobSize) + 1

AddCapped(x, n) == IF x + n < CountCap THEN x + n ELSE CountCap

SlotAfter(h, r) ==
    [calls |-> Inc(h.calls),
     resolves |-> AddCapped(h.resolves, r.resolves),
     first |-> IF h.calls = 0 THEN r.status ELSE h.first]

\* A call of doLog, from entry to return.
DoLogCall(W) ==
    /\ pc = "idle"
    /\ \E site \in W.sites, lv \in W.levels, ok \in BOOLEAN :
          LET r == doLog(status[site], site, lv, dest, ok)
          IN  /\ status' = [status EXCEPT ![site] = r.status]
              /\ slotHist' = [slotHist EXCEPT ![site] = SlotAfter(@, r)]
              /\ dest' = r.dest
              /\ call' = [kind |-> "doLog", site |-> site, loglevel |-> lv,
                          blob |-> FALSE, size |-> 0, pat |-> "text"]
              /\ out' = [msg |-> r.lines, dump |-> 0, last |-> NoLine]
    /\ pc' = "returned"
    /\ UNCHANGED <<loop, envLogFile, logdefault>>
    /\ UNCHANGED lvars
    /\ UNCHANGED cvars

\* A call of doLogBlob, from entry to its return or to the head of its loop.
DoLogBlobCall(W) ==
    /\ pc = "idle"
    /\ \E site \in W.sites, lv \in W.levels, blob \in BOOLEAN,
          size \in W.sizes, pat \in W.pats, ok \in BOOLEAN :
          LET r == doLogBlobHead(status[site], site, lv, blob, dest, ok)
          IN  /\ status' = [status EXCEPT ![site] = r.status]
              /\ slotHist' = [slotHist EXCEPT ![site] = SlotAfter(@, r)]
              /\ dest' = r.dest
              /\ call' = [kind |-> "doLogBlob", site |-> site, loglevel |-> lv,
                          blob |-> blob, size |-> size, pat |-> pat]
              /\ out' = [msg |-> r.lines, dump |-> 0, last |-> NoLine]
              /\ pc' = IF r.dump THEN "dump" ELSE "returned"
              /\ loop' = IF r.dump THEN LoopStart ELSE LoopIdle
    /\ UNCHANGED <<envLogFile, logdefault>>
    /\ UNCHANGED lvars
    /\ UNCHANGED cvars

\* One iteration of the for loop (i <= size holds).  A write past the end of
\* buffer lands in the memory that follows it.
DumpStep ==
    /\ pc = "dump"
    /\ loop.i <= call.size
    /\ \E ok \in BOOLEAN :
          LET r == dumpIter(loop, call.size, call.pat)
          IN  /\ loop' = r.loop
              /\ IF r.line # NoLine
                 THEN /\ dest' = getLogFile(dest, envLogFile, ok)
                      /\ out' = [out EXCEPT
                                   !.dump = IF @ < DumpCap THEN @ + 1 ELSE @,
                                   !.last = r.line]
                 ELSE UNCHANGED <<dest, out>>
    /\ UNCHANGED <<pc, call, status, slotHist, envLogFile, logdefault>>
    /\ UNCHANGED lvars
    /\ UNCHANGED cvars

\* An iteration that writes past the end of buffer may instead end the process.
DumpOverrun ==
    /\ pc = "dump"
    /\ loop.i <= call.size
    /\ dumpIter(loop, call.size, call.pat).extent > LINE_LEN
    /\ pc' = "crashed"
    /\ UNCHANGED <<loop, dest, out, call, status, slotHist, envLogFile, logdefault>>
    /\ UNCHANGED lvars
    /\ UNCHANGED cvars

\* i <= size fails: doLogBlob returns.
DumpReturn ==
    /\ pc = "dump"
    /\ ~(loop.i <= call.size)
    /\ pc' = "returned"
    /\ loop' = LoopIdle
    /\ UNCHANGED <<dest, out, call, status, slotHist, envLogFile, logdefault>>
    /\ UNCHANGED lvars
    /\ UNCHANGED cvars

\* The caller goes on; its next logging call starts from here.
CallerContinues ==
    /\ pc = "returned"
    /\ pc' = "idle"
    /\ call' = NoCall
    /\ out' = NoOut
    /\ UNCHANGED <<loop, dest, status, slotHist, envLogFile, logdefault>>
    /\ UNCHANGED lvars
    /\ UNCHANGED cvars

\* all+ERROR,b+DEBUG and xm+foo
CfgAllErrBDebug == <<Entry(StrAll, TokERROR), Entry(NameB, TokDEBUG)>>
CfgXmFoo == <<Entry(NameXM, TokFoo)>>

EnvIs(es, set) ==
    /\ cfg = (IF set THEN es ELSE << >>)
    /\ envLog = (IF set THEN Join(es) ELSE NULLSTR)

LogFileValues == {NULLSTR, ValStdErr, StrDash, ValSTDOUT, ValPath, ValStderrX}

\* Blob dumps of every length, through one call site.
DumpLoad ==
    [sites |-> {"siteA"},
     levels |-> {LOGLEVEL_WARNING, LOGLEVEL_INFO},
     sizes |-> 0 .. MaxBlobSize,
     pats |-> {"text", "bin"}]

DumpInit ==
    /\ EnvIs(<< >>, FALSE)
    /\ envLogFile \in {NULLSTR, ValPath}
    /\ logdefault = [s \in Sites |-> LOGLEVEL_WARNING]
    /\ query = NoQuery
    /\ EmitterFresh
    /\ ThreadsFresh

DumpNext ==
    \/ DoLogCall(DumpLoad)
    \/ DoLogBlobCall(DumpLoad)
    \/ DumpStep
    \/ DumpOverrun
    \/ DumpReturn
    \/ CallerContinues

SpecDump == DumpInit /\ [][DumpNext]_vars

\* The loop is executed: an iteration that can run, runs.
SpecDumpFair == SpecDump /\ WF_vars(DumpStep) /\ WF_vars(DumpReturn)

\* Every configuration and default level, through two call sites.
SiteLoad ==
    [sites |-> Sites,
     levels |-> {LOGLEVEL_ERROR, LOGLEVEL_DEBUG},
     sizes |-> {0, 17},
     pats |-> {"bin"}]

SiteInit ==
    /\ \/ EnvIs(<< >>, FALSE)
       \/ \E es \in {<<Entry(NameM, TokTRACE)>>, CfgAllErrBDebug, CfgXmFoo} :
             EnvIs(es, TRUE)
    /\ envLogFile \in LogFileValues
    /\ \E d \in Levels : logdefault = [s \in Sites |-> d]
    /\ query = NoQuery
    /\ EmitterFresh
    /\ ThreadsFresh

SiteNext ==
    \/ DoLogCall(SiteLoad)
    \/ DoLogBlobCall(SiteLoad)
    \/ DumpStep
    \/ DumpReturn
    \/ CallerContinues

SpecSite == SiteInit /\ [][SiteNext]_vars

-----------------------------------------------------------------------------
(* getLogFile called by several threads: one action per access to the       *)
(* static file, which no lock protects                                      *)

MaxCalls == 2

\* A thread enters getLogFile.
Enter(t) ==
    /\ th[t].pc = "idle"
    /\ th[t].calls < MaxCalls
    /\ th' = [th EXCEPT ![t].pc = "check", ![t].calls = @ + 1]
    /\ shared' = [shared EXCEPT
                    !.raced = @ \/ \E u \in Threads \ {t} : th[u].pc # "idle"]
    /\ UNCHANGED <<envLogFile, lvars, evarsRest>>

\* if (file) return file;
Check(t) ==
    /\ th[t].pc = "check"
    /\ th' = [th EXCEPT
                ![t].pc = IF isCached(shared.file) THEN "ret" ELSE "resolve",
                ![t].reg = shared.file]
    /\ UNCHANGED shared
    /\ UNCHANGED <<envLogFile, lvars, evarsRest>>

\* getenv, the comparisons, and the store of a standard stream.
ResolveStream(t) ==
    /\ th[t].pc = "resolve"
    /\ namedStream(envLogFile) # NULLF
    /\ shared' = [shared EXCEPT !.file = namedStream(envLogFile)]
    /\ th' = [th EXCEPT ![t].pc = "ret", ![t].reg = namedStream(envLogFile)]
    /\ UNCHANGED <<envLogFile, lvars, evarsRest>>

\* file = fopen(envpath, "a+") succeeds.
OpenFile(t) ==
    /\ th[t].pc = "resolve"
    /\ namedStream(envLogFile) = NULLF
    /\ shared' = [shared EXCEPT !.file = FileHandle(shared.fopens + 1),
                                !.fopens = @ + 1]
    /\ th' = [th EXCEPT ![t].pc = "ret",
                        ![t].reg = FileHandle(shared.fopens + 1)]
    /\ UNCHANGED <<envLogFile, lvars, evarsRest>>

\* file = fopen(envpath, "a+") fails: the NULL is stored in file, or kept in
\* a register until stderr replaces it.
OpenFails(t) ==
    /\ th[t].pc = "resolve"
    /\ namedStream(envLogFile) = NULLF
    /\ \/ /\ shared' = [shared EXCEPT !.file = NULLF, !.fopens = @ + 1]
          /\ th' = [th EXCEPT ![t].pc = "failed", ![t].reg = NULLF]
       \/ /\ shared' = [shared EXCEPT !.file = STDERR, !.fopens = @ + 1]
          /\ th' = [th EXCEPT ![t].pc = "ret", ![t].reg = STDERR]
    /\ UNCHANGED <<envLogFile, lvars, evarsRest>>

\* if (file == NULL) file = stderr; the test reads the register, or reads
\* file again and may see the handle another thread stored.
Fallback(t) ==
    /\ th[t].pc = "failed"
    /\ \/ /\ shared' = [shared EXCEPT !.file = STDERR]
          /\ th' = [th EXCEPT ![t].pc = "ret", ![t].reg = STDERR]
       \/ /\ shared.file # NULLF
          /\ th' = [th EXCEPT ![t].pc = "ret", ![t].reg = shared.file]
          /\ UNCHANGED shared
    /\ UNCHANGED <<envLogFile, lvars, evarsRest>>

\* return file; from the register, or from file read again.
Return(t) ==
    /\ th[t].pc = "ret"
    /\ \/ th' = [th EXCEPT ![t].pc = "idle", ![t].ret = th[t].reg]
       \/ th' = [th EXCEPT ![t].pc = "idle", ![t].ret = shared.file]
    /\ UNCHANGED shared
    /\ UNCHANGED <<envLogFile, lvars, evarsRest>>

ConcInit ==
    /\ envLogFile \in LogFileValues
    /\ EnvIs(<< >>, FALSE)
    /\ logdefault = [s \in Sites |-> LOGLEVEL_WARNING]
    /\ query = NoQuery
    /\ EmitterFresh
    /\ ThreadsFresh

ConcNext ==
    \E t \in Threads :
        \/ Enter(t)
        \/ Check(t)
        \/ ResolveStream(t)
        \/ OpenFile(t)
        \/ OpenFails(t)
        \/ Fallback(t)
        \/ Return(t)

SpecConc == ConcInit /\ [][ConcNext]_vars

-----------------------------------------------------------------------------
(* Claims about the level resolver (specification SpecLevel) *)

Resolved == query.pc = "done"

\* The entries of cfg other than the k-th name neither module nor "all".
OthersAreOtherModules(k, module) ==
    \A j \in (1 .. Len(cfg)) \ {k} :
        cfg[j].name # module /\ cfg[j].name # StrAll

\* C1: whenever TSS2_LOG holds the entry M+DEBUG and all its other entries
\* name modules other than M, getLogLevel(M, default) is DEBUG.
C1_DebugWins ==
    (/\ Resolved
     /\ envLog # NULLSTR
     /\ \E k \in 1 .. Len(cfg) :
           /\ cfg[k] = Entry(query.module, TokDEBUG)
           /\ OthersAreOtherModules(k, query.module))
    => query.result = LOGLEVEL_DEBUG

\* C2: with TSS2_LOG = all+WARNING,moduleX+TRACE, getLogLevel is TRACE for
\* moduleX and WARNING for every other module name.
C2_AllWarningModuleXTrace ==
    (Resolved /\ envLog # NULLSTR /\ cfg = CfgAllWarnModXTrace)
    => query.result = (IF query.module = NameModuleX
                       THEN LOGLEVEL_TRACE ELSE LOGLEVEL_WARNING)

\* Offsets of the '+' characters of env.
PlusOffsets(env) == {p \in 0 .. Len(env) - 1 : env[p + 1] = PLUS}

\* The entries of env the resolver matches for module and whose level token
\* it recognises, as the offsets of their '+'.
Hits(env, module) ==
    {p \in PlusOffsets(env) :
        /\ entryMatches(env, p, module)
        /\ log_stringlevel(env, p + 1) # LOGLEVEL_UNDEFINED}

Max(S) == CHOOSE x \in S : \A y \in S : y <= x
Min(S) == CHOOSE x \in S : \A y \in S : x <= y

CfgErrThenTrace == <<Entry(NameM, TokERROR), Entry(NameM, TokTRACE)>>

C4_DefaultWhenNoEntry ==
    (/\ Resolved
     /\ \/ envLog = NULLSTR
        \/ \A k \in 1 .. Len(cfg) :
              cfg[k].name # query.module /\ cfg[k].name # StrAll)
    => query.result = query.logdefault

-----------------------------------------------------------------------------
(* Claims about the emitters (specifications SpecDump, SpecDumpFair, SpecSite) *)

Threshold == status[call.site]

\* C5: a call whose level is above the call site's threshold writes nothing;
\* a doLog call at or below it writes exactly one line; a doLogBlob call at
\* or below it with a present buffer of length len writes one message line
\* and exactly ceil(len/16) dump lines.
C5_GatingAndCount ==
    /\ (call.kind # "none" /\ call.loglevel > Threshold)
          => (out.msg = 0 /\ out.dump = 0)
    /\ (call.kind = "doLog" /\ call.loglevel <= Threshold)
          => (out.msg = 1 /\ out.dump = 0)
    /\ (call.kind = "doLogBlob" /\ call.loglevel <= Threshold /\ call.blob)
          => /\ out.msg = 1
             /\ out.dump <= Ceil16(call.size)
             /\ pc = "returned" => out.dump = Ceil16(call.size)

\* A dump line as the claim describes it: offset prefix, nbytes byte pairs,
\* spaces up to the ASCII column, nbytes ASCII characters.
WellFormedLine(L) ==
    /\ L.col = AsciiCol
    /\ Len(L.text) = AsciiCol + L.nbytes
    /\ \A k \in 7 .. 6 + 2 * L.nbytes : L.text[k] # 32
    /\ \A k \in 7 + 2 * L.nbytes .. AsciiCol : L.text[k] = 32
    /\ \A k \in AsciiCol + 1 .. Len(L.text) : isgraph(L.text[k])

\* C8: every dump line doLogBlob writes starts its ASCII part at the same
\* column and has as many ASCII characters as bytes; a 17-byte buffer gives
\* a line of 16 bytes and a line of 1 byte.
C8_AsciiAligned ==
    (call.kind = "doLogBlob" /\ out.last # NoLine) =>
        /\ WellFormedLine(out.last)
        /\ call.size = 17 =>
              \/ out.dump = 1 /\ out.last.nbytes = 16
              \/ out.dump = 2 /\ out.last.nbytes = 1

\* C9: a doLogBlob call that enters its dump loop leaves it.
C9_BlobTerminates == (pc = "dump") ~> (pc # "dump")

\* C6: once getLogFile has returned, every later call returns the same
\* handle, the environment was read once and fopen called at most once; a
\* failed fopen leaves stderr as the handle.
C6_DestinationIdempotent ==
    dest.calls >= 1 =>
        /\ dest.first # NULLF
        /\ dest.last = dest.first
        /\ dest.file = dest.first
        /\ dest.reads = 1
        /\ dest.fopens <= 1
        /\ dest.failed => (dest.first = STDERR /\ dest.fopens = 1 /\ dest.diag = 1)

\* getLogFile was called again after a call whose fopen failed.
C6_Witness ==
    /\ dest.calls >= 2
    /\ dest.failed
    /\ dest.last = STDERR
    /\ envLogFile = ValStderrX

\* C7: after the first call through a status slot the slot holds a level,
\* keeps it, and getLogLevel has been called once for it.
C7_SlotTerminal ==
    \A s \in Sites :
        slotHist[s].calls >= 1 =>
            /\ status[s] \in Levels
            /\ status[s] = slotHist[s].first
            /\ slotHist[s].resolves = 1

\* Two calls through a slot that TSS2_LOG resolved away from the default.
C7_Witness ==
    \E s \in Sites :
        /\ slotHist[s].calls >= 2
        /\ envLog # NULLSTR
        /\ status[s] # logdefault[s]
        /\ pc = "returned"

-----------------------------------------------------------------------------
(* Claims about getLogFile under concurrency (specification SpecConc) *)

Returned(t) == th[t].ret # NotReturned

SameHandleEverywhere ==
    \A t, u \in Threads : (Returned(t) /\ Returned(u)) => th[t].ret = th[u].ret

\* C10 as stated: in every interleaving fopen is called at most once and all
\* threads use the same handle.
C10_ResolvedOnceConcurrently ==
    /\ shared.fopens <= 1
    /\ SameHandleEverywhere

\* C10 amended: when no two getLogFile calls overlap, fopen is called at
\* most once and every call returns the same handle.
C10_ResolvedOnceWhenNotOverlapping ==
    ~shared.raced => (shared.fopens <= 1 /\ SameHandleEverywhere)

\* Two threads, one after the other, use the file the first one opened.
C10_Witness ==
    /\ ~shared.raced
    /\ shared.fopens = 1
    /\ \A t \in Threads : th[t].pc = "idle" /\ th[t].ret = FileHandle(1)

=============================================================================
